---- MODULE Spec2Model ----
(***************************************************************************)
(* Model of the candidate-assessment front end of hr-evaluation-system:    *)
(*   - the round orchestration of pages/Assessment.tsx,                    *)
(*   - the proctoring session hook useProctoring                           *)
(*     (hooks/useObjectDetection.ts, second half of the file),             *)
(*   - the weight editor of pages/admin/EvaluationCriteria.tsx,            *)
(*   - the page of the coding round (CodingTest) and the detectors the     *)
(*     pages wire to the hook.                                             *)
(* Each part has its own specification; the variables of the other parts   *)
(* stay at their initial values.                                           *)
(***************************************************************************)
EXTENDS Integers, Sequences, FiniteSets, TLC

(***************************************************************************)
(* Bounds of the model                                                     *)
(***************************************************************************)
\* questions per round
NumQuestions == 2
\* answer values are 1..MaxVal (0 stands for "no answer recorded")
MaxVal == 1
\* pending setTimeout callbacks
MaxTimers == 2
\* pending network continuations of handleSubmitQuestion
MaxInflight == 1
\* logical clock read by new Date()
MaxClock == 7
\* page reloads
MaxReloads == 1
\* calls of the proctoring hook's operations
MaxCalls == 5
\* suspended calls of the proctoring hook
MaxPending == 2
\* sessions the server issues
MaxSessions == 2
\* count per violation type
MaxCount == 2
\* edits of the weights
MaxEdits == 3
\* seconds of the coding round's time limit
MaxTime == 2
\* contents of the code editor are 1..MaxCode (0 stands for the empty editor)
MaxCode == 1
\* suspended requests of the coding page
MaxCodingPending == 2
\* submissions of code sent by the coding page
MaxSubmits == 2
\* requests to complete the coding round
MaxCompletes == 2
\* clicks on Save Criteria and Reset to Defaults
MaxRequests == 1
\* suspended requests of the weight editor
MaxWeightPending == 3
\* signals raised by the detectors
MaxSignals == 2

(***************************************************************************)
(* Rounds                                                                  *)
(***************************************************************************)
Rounds == {"mcq", "psychometric", "text-based", "coding"}

\* the fixed order of the rounds (types/rounds.ts is not part of the sources)
ROUND_ORDER == <<"mcq", "psychometric", "text-based", "coding">>

\* ROUND_ORDER.indexOf(r), 1-based here
IndexOf(r) == CHOOSE i \in 1..Len(ROUND_ORDER) : ROUND_ORDER[i] = r

\* identifier of the first question of a round; the others follow
FirstQuestionId == 1

\* question_id of the question shown at index idx (0-based)
QuestionIdOf(idx) == FirstQuestionId + idx

QuestionIds == {QuestionIdOf(i) : i \in 0..(NumQuestions - 1)}

Values == 1..MaxVal

Flags == [mcq : BOOLEAN, psychometric : BOOLEAN, text_based : BOOLEAN, coding : BOOLEAN]

NoFlags == [mcq |-> FALSE, psychometric |-> FALSE, text_based |-> FALSE, coding |-> FALSE]

VARIABLES
  currentRound,          \* useState currentRound
  roundProgress,         \* useState roundProgress: round -> RoundProgress
  loading,               \* useState loading
  currentQuestionIndex,  \* useState currentQuestionIndex
  questionsLoaded,       \* round -> the API questions of the round are in state
  showUnansweredWarning, \* useState showUnansweredWarning
  pendingSubmitAction,   \* useState pendingSubmitAction: "none" or the round its closure captured
  timers,                \* pending setTimeout callbacks, in the order they were set
  inflight,              \* suspended handleSubmitQuestion calls awaiting a response
  location,              \* the route shown by the router
  now,                   \* logical clock behind new Date()
  statusChecked,         \* checkCandidateStatus has run for this mount
  lastFlags,             \* the completion flags checkCandidateStatus read: {} or {flags}
  completions,           \* the rounds completeCurrentRound was run for since the mount, in order
  lastPayload,           \* the answers last submitted for a whole round: {} or {payload}
  reloads                \* number of page reloads so far

roundVars == <<currentRound, roundProgress, loading, currentQuestionIndex,
               questionsLoaded, showUnansweredWarning, pendingSubmitAction,
               timers, inflight, location, now, statusChecked, lastFlags,
               completions, lastPayload, reloads>>

VARIABLES
  sessionId,        \* useState sessionId; 0 is null
  isMonitoring,     \* useState isMonitoring
  status,           \* useState status
  violationCounts,  \* violationCountsRef.current
  pending,          \* suspended startSession, stopSession and analyzeFrame calls
  nextSessionId,    \* the session id the server issues next
  endRequests,      \* bodies of the POST /api/proctor/session/end requests sent
  callNo,           \* number of calls of the hook's operations so far
  lastCall,         \* the last call: operation, type tag, sessionId of its closure
  accepted,         \* type tag -> calls of logViolation that passed its sessionId test
                    \* since the last successful start
  lastReturn        \* the call that settled last: operation, outcome of its fetch, value returned

proctorVars == <<sessionId, isMonitoring, status, violationCounts, pending,
                 nextSessionId, endRequests, callNo, lastCall, accepted, lastReturn>>

VARIABLES
  criteria,      \* useState criteria: the four weights
  is_default,    \* criteria.is_default
  lockedFields,  \* useState lockedFields
  edits,         \* number of edits so far
  lastEdit,      \* the last edit: the field and the text typed into it
  criteriaLoading,  \* useState loading of the weight editor
  weightPending,    \* suspended fetchEvaluationCriteria, handleSaveCriteria and
                    \* handleResetToDefaults calls
  server,           \* the recruiter's evaluation_criteria record on the server
  requests,         \* clicks on Save Criteria and Reset to Defaults so far
  lastSettled       \* the request that settled last: its kind, its caller, its outcome

weightVars == <<criteria, is_default, lockedFields, edits, lastEdit,
                criteriaLoading, weightPending, server, requests, lastSettled>>

VARIABLES
  timeRemaining,   \* useState timeRemaining; -1 is null
  timerStarted,    \* useState timerStarted
  code,            \* useState code: the editor's contents
  isSubmitting,    \* useState isSubmitting
  codingPending,   \* suspended fetchConfig, handleSubmit and handleComplete calls
  codeSubmits,     \* bodies of the POST /api/code/submit requests sent, in order
  completeCalls,   \* number of POST /api/code/complete requests sent
  roundDone,       \* the server has answered /api/code/complete with success
  tokenPresent,    \* localStorage holds candidate_token
  codingLocation,  \* the route shown: "coding-test" or "/"
  navPending       \* the setTimeout(() => navigate('/'), 1500) is pending

codingVars == <<timeRemaining, timerStarted, code, isSubmitting, codingPending,
                codeSubmits, completeCalls, roundDone, tokenPresent, codingLocation,
                navPending>>

VARIABLES
  signals,     \* number of signals the detectors have raised so far
  lastSignal   \* the last signal: the detector that raised it and its type tag

detectorVars == <<signals, lastSignal>>

vars == <<roundVars, proctorVars, weightVars, codingVars, detectorVars>>

\* a RoundProgress as the component creates it
NewProgress(st) ==
  [status |-> st, answers |-> [q \in QuestionIds |-> 0], completedAt |-> 0, startedAt |-> 0,
   currentQuestionIndex |-> 0]

\* the state of a freshly mounted Assessment component
InitialProgress ==
  [r \in Rounds |-> IF r = "mcq" THEN NewProgress("in-progress") ELSE NewProgress("not-started")]

\* answers[key] of a round; undefined keys read as 0
AnswerAt(rp, r, key) == IF key \in DOMAIN rp[r].answers THEN rp[r].answers[key] ELSE 0

\* Object.entries(roundProgress[r].answers) as submitAllMCQAnswers and
\* submitAllPsychometricAnswers send it: one entry per key of answers, and a
\* question never answered has no key
Payload(rp, r) ==
  [round |-> r,
   entries |-> {[question_id |-> q, answer |-> rp[r].answers[q]] :
                  q \in {x \in DOMAIN rp[r].answers : rp[r].answers[x] # 0}}]

currentAnswer == AnswerAt(roundProgress, currentRound, QuestionIdOf(currentQuestionIndex))

totalQuestions == NumQuestions

\* the page renders the question form (none of the loading screens)
FormVisible ==
  /\ location = "assessment"
  /\ ~loading
  /\ (currentRound = "mcq" => questionsLoaded["mcq"])
  /\ (currentRound = "psychometric" => questionsLoaded["psychometric"])
  /\ ~showUnansweredWarning

RoundsInit ==
  /\ currentRound = "mcq"
  /\ roundProgress = InitialProgress
  /\ loading = TRUE
  /\ currentQuestionIndex = 0
  /\ questionsLoaded = [r \in Rounds |-> FALSE]
  /\ showUnansweredWarning = FALSE
  /\ pendingSubmitAction = "none"
  /\ timers = <<>>
  /\ inflight = <<>>
  /\ location = "assessment"
  /\ now = 1
  /\ statusChecked = FALSE
  /\ lastFlags = {}
  /\ completions = <<>>
  /\ lastPayload = {}
  /\ reloads = 0

(***************************************************************************)
(* checkCandidateStatus: the effect that runs once per mount               *)
(***************************************************************************)
\* activeRound as the three if-statements leave it
ActiveRoundOf(flags) ==
  IF flags.psychometric THEN "text-based"
  ELSE IF flags.mcq THEN "psychometric"
  ELSE "mcq"

\* updatedProgress shares its RoundProgress objects with the state, so the
\* assignments to .status change the state objects themselves
MarkCompleted(rp, flags) ==
  [r \in Rounds |->
     IF \/ (r = "mcq" /\ flags.mcq)
        \/ (r = "psychometric" /\ flags.psychometric)
        \/ (r = "text-based" /\ flags.text_based)
     THEN [rp[r] EXCEPT !.status = "completed"]
     ELSE rp[r]]

CheckCandidateStatus ==
  /\ location = "assessment"
  /\ ~statusChecked
  /\ statusChecked' = TRUE
  /\ \E valid \in BOOLEAN, flags \in Flags :
       IF ~valid
       THEN \* result.error, an invalid token or an exception: back to the login page
            /\ location' = "/candidate/login"
            /\ UNCHANGED <<currentRound, roundProgress, loading, lastFlags>>
       ELSE /\ lastFlags' = {flags}
            /\ roundProgress' = MarkCompleted(roundProgress, flags)
            /\ IF flags.text_based
               THEN /\ location' = "/candidate"
                    /\ UNCHANGED <<currentRound, loading>>
               ELSE IF ActiveRoundOf(flags) = "text-based"
               THEN /\ location' = "/candidate/text-based-test"
                    /\ UNCHANGED <<currentRound, loading>>
               ELSE /\ currentRound' = ActiveRoundOf(flags)
                    /\ loading' = FALSE
                    /\ UNCHANGED location
  /\ UNCHANGED <<currentQuestionIndex, questionsLoaded, showUnansweredWarning,
                 pendingSubmitAction, timers, inflight, now, completions, lastPayload, reloads>>
  /\ UNCHANGED <<proctorVars, weightVars, codingVars, detectorVars>>

(***************************************************************************)
(* loadMCQQuestions, loadPsychometricQuestions (and its prefetch),         *)
(* loadTextBasedQuestions: the response with the questions arrives         *)
(***************************************************************************)
LoadQuestions(r) ==
  /\ location = "assessment"
  /\ r \in {"mcq", "psychometric", "text-based"}
  /\ ~questionsLoaded[r]
  /\ \/ r = currentRound
     \/ (r = "psychometric" /\ questionsLoaded["mcq"])
  /\ questionsLoaded' = [questionsLoaded EXCEPT ![r] = TRUE]
  /\ UNCHANGED <<currentRound, roundProgress, loading, currentQuestionIndex,
                 showUnansweredWarning, pendingSubmitAction, timers, inflight,
                 location, now, completions, lastPayload, statusChecked, lastFlags, reloads>>
  /\ UNCHANGED <<proctorVars, weightVars, codingVars, detectorVars>>

(***************************************************************************)
(* handleAnswerChange, handlePrevious, handleNext                          *)
(***************************************************************************)
\* the roundProgress that handleAnswerChange's updater returns
AnswerChanged(rp, r, idx, value) ==
  [rp EXCEPT ![r] = [rp[r] EXCEPT !.answers = [rp[r].answers EXCEPT ![QuestionIdOf(idx)] = value],
                                  !.currentQuestionIndex = idx]]

HandleAnswerChange(value) ==
  /\ FormVisible
  /\ roundProgress' = AnswerChanged(roundProgress, currentRound, currentQuestionIndex, value)
  /\ UNCHANGED <<currentRound, loading, currentQuestionIndex, questionsLoaded,
                 showUnansweredWarning, pendingSubmitAction, timers, inflight,
                 location, now, completions, lastPayload, statusChecked, lastFlags, reloads>>
  /\ UNCHANGED <<proctorVars, weightVars, codingVars, detectorVars>>

HandlePrevious ==
  /\ FormVisible
  /\ currentQuestionIndex > 0
  /\ currentQuestionIndex' = currentQuestionIndex - 1
  /\ UNCHANGED <<currentRound, roundProgress, loading, questionsLoaded,
                 showUnansweredWarning, pendingSubmitAction, timers, inflight,
                 location, now, completions, lastPayload, statusChecked, lastFlags, reloads>>
  /\ UNCHANGED <<proctorVars, weightVars, codingVars, detectorVars>>

HandleNext ==
  /\ FormVisible
  /\ currentQuestionIndex < totalQuestions - 1
  /\ currentQuestionIndex' = currentQuestionIndex + 1
  /\ UNCHANGED <<currentRound, roundProgress, loading, questionsLoaded,
                 showUnansweredWarning, pendingSubmitAction, timers, inflight,
                 location, now, completions, lastPayload, statusChecked, lastFlags, reloads>>
  /\ UNCHANGED <<proctorVars, weightVars, codingVars, detectorVars>>

(***************************************************************************)
(* completeCurrentRound and moveToNextRound, as run from a closure that    *)
(* captured round r as its currentRound                                    *)
(***************************************************************************)
\* the roundProgress that completeCurrentRound's updater returns
CompleteCurrentRound(rp, r, date) ==
  [rp EXCEPT ![r] = [rp[r] EXCEPT !.status = "completed", !.completedAt = date]]

MoveTimer(r, ms) == [kind |-> "move", round |-> r, target |-> "", delay |-> ms]

NavTimer(to, ms) == [kind |-> "nav", round |-> "", target |-> to, delay |-> ms]

\* setTimeout callbacks run in the order of their due times: a callback set
\* earlier with a delay that is not longer runs first
Fireable(i) == \A j \in 1..(i - 1) : timers[j].delay > timers[i].delay

Remove(seq, i) == SubSeq(seq, 1, i - 1) \o SubSeq(seq, i + 1, Len(seq))

\* await completeCurrentRound(); setTimeout(() => moveToNextRound(), ms); for
\* the MCQ round submitAllMCQAnswers() runs first, from the same closure
CompleteAndSchedule(r, ms) ==
  /\ now < MaxClock
  /\ Len(timers) < MaxTimers
  /\ roundProgress' = CompleteCurrentRound(roundProgress, r, now)
  /\ now' = now + 1
  /\ timers' = Append(timers, MoveTimer(r, ms))
  /\ completions' = Append(completions, r)
  /\ lastPayload' = IF r = "mcq" THEN {Payload(roundProgress, "mcq")} ELSE lastPayload

\* the setTimeout callback () => moveToNextRound() of a closure whose currentRound is r
MoveToNextRound(i) ==
  /\ location = "assessment"
  /\ i \in 1..Len(timers)
  /\ Fireable(i)
  /\ timers[i].kind = "move"
  /\ LET r == timers[i].round
         currentIdx == IndexOf(r)
         rest == Remove(timers, i)
     IN IF currentIdx < Len(ROUND_ORDER)
        THEN LET nextRound == ROUND_ORDER[currentIdx + 1]
             IN IF nextRound = "coding"
                THEN /\ timers' = Append(rest, NavTimer("/candidate/coding-test", 1500))
                     /\ UNCHANGED <<currentRound, currentQuestionIndex, roundProgress, now>>
                ELSE /\ now < MaxClock
                     /\ currentRound' = nextRound
                     /\ currentQuestionIndex' = 0
                     /\ roundProgress' =
                          [roundProgress EXCEPT ![nextRound] =
                             [roundProgress[nextRound] EXCEPT !.status = "in-progress",
                                                              !.startedAt = now]]
                     /\ now' = now + 1
                     /\ timers' = rest
        ELSE /\ timers' = Append(rest, NavTimer("/candidate", 2000))
             /\ UNCHANGED <<currentRound, currentQuestionIndex, roundProgress, now>>
  /\ UNCHANGED <<loading, questionsLoaded, showUnansweredWarning, pendingSubmitAction,
                 inflight, location, statusChecked, lastFlags, completions, lastPayload, reloads>>
  /\ UNCHANGED <<proctorVars, weightVars, codingVars, detectorVars>>

\* the setTimeout callback () => navigate(target)
Navigate(i) ==
  /\ location = "assessment"
  /\ i \in 1..Len(timers)
  /\ Fireable(i)
  /\ timers[i].kind = "nav"
  /\ location' = timers[i].target
  /\ timers' = Remove(timers, i)
  /\ UNCHANGED <<currentRound, roundProgress, loading, currentQuestionIndex,
                 questionsLoaded, showUnansweredWarning, pendingSubmitAction,
                 inflight, now, completions, lastPayload, statusChecked, lastFlags, reloads>>
  /\ UNCHANGED <<proctorVars, weightVars, codingVars, detectorVars>>

(***************************************************************************)
(* handleSubmitQuestion                                                    *)
(***************************************************************************)
\* mcqQuestions.filter((_, idx) => !roundProgress[r].answers[idx]): the check
\* reads answers by list index, while answers are stored by question id
Unanswered(rp, r) == {idx \in 0..(NumQuestions - 1) : AnswerAt(rp, r, idx) = 0}

Suspended(kind, r, idx) == [kind |-> kind, round |-> r, idx |-> idx]

HandleSubmitQuestion ==
  /\ FormVisible
  /\ IF currentRound \in {"mcq", "psychometric"}
     THEN IF currentAnswer = 0
          THEN \* 'Please select an answer before submitting'
               UNCHANGED <<roundProgress, currentQuestionIndex, showUnansweredWarning,
                           pendingSubmitAction, timers, inflight, now, completions, lastPayload>>
          ELSE IF currentQuestionIndex < totalQuestions - 1
          THEN /\ currentQuestionIndex' = currentQuestionIndex + 1
               /\ UNCHANGED <<roundProgress, showUnansweredWarning, pendingSubmitAction,
                              timers, inflight, now, completions, lastPayload>>
          ELSE IF Unanswered(roundProgress, currentRound) # {}
          THEN /\ pendingSubmitAction' = currentRound
               /\ showUnansweredWarning' = TRUE
               /\ UNCHANGED <<roundProgress, currentQuestionIndex, timers, inflight, now, completions, lastPayload>>
          ELSE IF currentRound = "mcq"
          THEN \* submitAllMCQAnswers does not wait for its requests
               /\ CompleteAndSchedule("mcq", 500)
               /\ UNCHANGED <<currentQuestionIndex, showUnansweredWarning,
                              pendingSubmitAction, inflight>>
          ELSE \* await psychometricApi.submitTest(...)
               /\ Len(inflight) < MaxInflight
               /\ inflight' = Append(inflight, Suspended("psySubmit", currentRound, currentQuestionIndex))
               /\ lastPayload' = {Payload(roundProgress, "psychometric")}
               /\ UNCHANGED <<roundProgress, currentQuestionIndex, showUnansweredWarning,
                              pendingSubmitAction, timers, now, completions>>
     ELSE IF currentRound = "text-based" /\ questionsLoaded["text-based"]
     THEN IF currentAnswer = 0
          THEN UNCHANGED <<roundProgress, currentQuestionIndex, showUnansweredWarning,
                           pendingSubmitAction, timers, inflight, now, completions, lastPayload>>
          ELSE \* await textBasedApi.submitAnswer(...)
               /\ Len(inflight) < MaxInflight
               /\ inflight' = Append(inflight, Suspended("textSubmit", currentRound, currentQuestionIndex))
               /\ UNCHANGED <<roundProgress, currentQuestionIndex, showUnansweredWarning,
                              pendingSubmitAction, timers, now, completions, lastPayload>>
     ELSE \* the questions of the mock data
          IF currentQuestionIndex < totalQuestions - 1
          THEN /\ currentQuestionIndex' = currentQuestionIndex + 1
               /\ UNCHANGED <<roundProgress, showUnansweredWarning, pendingSubmitAction,
                              timers, inflight, now, completions, lastPayload>>
          ELSE /\ CompleteAndSchedule(currentRound, 1500)
               /\ UNCHANGED <<currentQuestionIndex, showUnansweredWarning,
                              pendingSubmitAction, inflight>>
  /\ UNCHANGED <<currentRound, loading, questionsLoaded, location, statusChecked,
                 lastFlags, reloads>>
  /\ UNCHANGED <<proctorVars, weightVars, codingVars, detectorVars>>

(***************************************************************************)
(* The "Submit Round?" dialog                                              *)
(***************************************************************************)
\* AlertDialogAction onClick: pendingSubmitAction() of the closure stored by
\* handleSubmitQuestion
ConfirmSubmit ==
  /\ location = "assessment"
  /\ showUnansweredWarning
  /\ showUnansweredWarning' = FALSE
  /\ pendingSubmitAction' = "none"
  /\ IF pendingSubmitAction = "mcq"
     THEN /\ CompleteAndSchedule("mcq", 500)
          /\ UNCHANGED inflight
     ELSE IF pendingSubmitAction = "psychometric"
     THEN /\ Len(inflight) < MaxInflight
          /\ inflight' = Append(inflight, Suspended("psySubmit", "psychometric", currentQuestionIndex))
          /\ lastPayload' = {Payload(roundProgress, "psychometric")}
          /\ UNCHANGED <<roundProgress, timers, now, completions>>
     ELSE UNCHANGED <<roundProgress, timers, now, completions, lastPayload, inflight>>
  /\ UNCHANGED <<currentRound, loading, currentQuestionIndex, questionsLoaded,
                 location, statusChecked, lastFlags, reloads>>
  /\ UNCHANGED <<proctorVars, weightVars, codingVars, detectorVars>>

\* AlertDialogCancel ("Go Back"): onOpenChange(false)
CancelSubmit ==
  /\ location = "assessment"
  /\ showUnansweredWarning
  /\ showUnansweredWarning' = FALSE
  /\ UNCHANGED <<currentRound, roundProgress, loading, currentQuestionIndex,
                 questionsLoaded, pendingSubmitAction, timers, inflight, location,
                 now, completions, lastPayload, statusChecked, lastFlags, reloads>>
  /\ UNCHANGED <<proctorVars, weightVars, codingVars, detectorVars>>

(***************************************************************************)
(* A suspended handleSubmitQuestion resumes with the response              *)
(***************************************************************************)
NetworkResponse(i, ok) ==
  /\ location = "assessment"
  /\ i \in 1..Len(inflight)
  /\ LET c == inflight[i]
         rest == Remove(inflight, i)
     IN IF c.kind = "psySubmit"
        THEN \* submitAllPsychometricAnswers reports a failure in the log only
             /\ CompleteAndSchedule(c.round, 500)
             /\ inflight' = rest
             /\ UNCHANGED currentQuestionIndex
        ELSE IF c.kind = "textSubmit"
        THEN IF ~ok
             THEN /\ inflight' = rest
                  /\ UNCHANGED <<roundProgress, timers, now, completions, lastPayload, currentQuestionIndex>>
             ELSE IF c.idx < totalQuestions - 1
             THEN /\ currentQuestionIndex' = c.idx + 1
                  /\ inflight' = rest
                  /\ UNCHANGED <<roundProgress, timers, now, completions, lastPayload>>
             ELSE \* await textBasedApi.complete()
                  /\ inflight' = Append(rest, Suspended("textComplete", c.round, c.idx))
                  /\ UNCHANGED <<roundProgress, timers, now, completions, lastPayload, currentQuestionIndex>>
        ELSE \* textComplete: the result of textBasedApi.complete() is not read
             /\ CompleteAndSchedule(c.round, 500)
             /\ inflight' = rest
             /\ UNCHANGED currentQuestionIndex
  /\ UNCHANGED <<currentRound, loading, questionsLoaded, showUnansweredWarning,
                 pendingSubmitAction, location, statusChecked, lastFlags, reloads>>
  /\ UNCHANGED <<proctorVars, weightVars, codingVars, detectorVars>>

(***************************************************************************)
(* The candidate reloads the page: a fresh component, nothing survives     *)
(***************************************************************************)
Reload ==
  /\ reloads < MaxReloads
  /\ reloads' = reloads + 1
  /\ currentRound' = "mcq"
  /\ roundProgress' = InitialProgress
  /\ loading' = TRUE
  /\ currentQuestionIndex' = 0
  /\ questionsLoaded' = [r \in Rounds |-> FALSE]
  /\ showUnansweredWarning' = FALSE
  /\ pendingSubmitAction' = "none"
  /\ timers' = <<>>
  /\ inflight' = <<>>
  /\ location' = "assessment"
  /\ statusChecked' = FALSE
  /\ lastFlags' = {}
  /\ completions' = <<>>
  /\ lastPayload' = {}
  /\ UNCHANGED now
  /\ UNCHANGED <<proctorVars, weightVars, codingVars, detectorVars>>

(***************************************************************************)
(* useProctoring: the proctoring session hook                              *)
(***************************************************************************)
\* the keys violationCountsRef starts with
KnownTypes == {"no_face", "multiple_faces", "looking_away", "phone_detected",
               "tab_switch", "mouse_exit", "print_screen", "copy_paste"}

\* the type tags the detectors of the model raise
RaisedTypes == {"no_face", "tab_switch", "suspicious_noise"}

\* the initial value of violationCountsRef, and its value after a reset
ZeroCounts == [t \in KnownTypes |-> 0]

\* every type tag a call can carry
AllTypes == KnownTypes \cup RaisedTypes

\* the calls accepted so far after logViolation(type) of a closure whose
\* sessionId is sid: the call passes the test of the first line or returns
Accept(acc, sid, type) == IF sid = 0 THEN acc ELSE [acc EXCEPT ![type] = acc[type] + 1]


Call(op, type, sid) == [op |-> op, type |-> type, sid |-> sid]

Returned(op, outcome, value) == [op |-> op, outcome |-> outcome, value |-> value]

\* what startSession returns: data.session_id when response.ok, null otherwise
StartReturn(outcome) == IF outcome = "ok" THEN "session_id" ELSE "null"

\* what stopSession returns: it has no return statement, and its catch block
\* only writes to the console
StopReturn(outcome) == "undefined"

ProctorInit ==
  /\ sessionId = 0
  /\ isMonitoring = FALSE
  /\ status = "idle"
  /\ violationCounts = ZeroCounts
  /\ pending = <<>>
  /\ nextSessionId = 1
  /\ endRequests = {}
  /\ callNo = 0
  /\ lastCall = Call("none", "", 0)
  /\ accepted = [t \in AllTypes |-> 0]
  /\ lastReturn = Returned("none", "", "")

\* startSession up to its await fetch(...)
StartSession ==
  /\ callNo < MaxCalls
  /\ Len(pending) < MaxPending
  /\ nextSessionId <= MaxSessions
  /\ isMonitoring' = TRUE
  /\ pending' = Append(pending, [op |-> "start", sid |-> 0])
  /\ callNo' = callNo + 1
  /\ lastCall' = Call("startSession", "", sessionId)
  /\ UNCHANGED <<sessionId, status, violationCounts, nextSessionId, endRequests, accepted,
                 lastReturn>>
  /\ UNCHANGED <<roundVars, weightVars, codingVars, detectorVars>>

\* startSession whose success branch keeps the counts of the earlier session
StartResponse_KeepsCounts(i, outcome) ==
  /\ i \in 1..Len(pending)
  /\ pending[i].op = "start"
  /\ pending' = Remove(pending, i)
  /\ lastReturn' = Returned("startSession", outcome, StartReturn(outcome))
  /\ IF outcome = "ok"
     THEN /\ sessionId' = nextSessionId
          /\ nextSessionId' = nextSessionId + 1
          /\ status' = "active"
          /\ UNCHANGED <<violationCounts, accepted>>
     ELSE /\ status' = "error"
          /\ UNCHANGED <<sessionId, nextSessionId, violationCounts, accepted>>
  /\ UNCHANGED <<isMonitoring, endRequests, callNo, lastCall>>
  /\ UNCHANGED <<roundVars, weightVars, codingVars, detectorVars>>

\* startSession after its await: response.ok, a response that is not ok, or
\* the fetch rejected
StartResponse(i, outcome) ==
  /\ i \in 1..Len(pending)
  /\ pending[i].op = "start"
  /\ pending' = Remove(pending, i)
  /\ lastReturn' = Returned("startSession", outcome, StartReturn(outcome))
  /\ IF outcome = "ok"
     THEN /\ sessionId' = nextSessionId
          /\ nextSessionId' = nextSessionId + 1
          /\ violationCounts' = ZeroCounts
          /\ accepted' = [t \in AllTypes |-> 0]
          /\ status' = "active"
     ELSE /\ status' = "error"
          /\ UNCHANGED <<sessionId, nextSessionId, violationCounts, accepted>>
  /\ UNCHANGED <<isMonitoring, endRequests, callNo, lastCall>>
  /\ UNCHANGED <<roundVars, weightVars, codingVars, detectorVars>>

\* stopSession up to its await fetch(...); sid is the sessionId of the closure
\* the caller holds
StopSessionCall(sid) ==
  /\ callNo < MaxCalls
  /\ Len(pending) < MaxPending
  /\ isMonitoring' = FALSE
  /\ status' = "idle"
  /\ endRequests' = endRequests \cup {[session_id |-> sid, violation_counts |-> violationCounts]}
  /\ pending' = Append(pending, [op |-> "stop", sid |-> sid])
  /\ callNo' = callNo + 1
  /\ lastCall' = Call("stopSession", "", sid)
  /\ UNCHANGED <<sessionId, violationCounts, nextSessionId, accepted, lastReturn>>

\* stopSession called on its own
StopSession(sid) ==
  /\ StopSessionCall(sid)
  /\ UNCHANGED <<roundVars, weightVars, codingVars, detectorVars>>

\* the sessionId stopSession leaves once its fetch has settled: fetch resolves
\* for every HTTP response ("ok", "http_error") and rejects on a network failure
SessionIdAfterStop(sid, outcome) == IF outcome = "network_error" THEN sid ELSE 0

StopResponse(i, outcome) ==
  /\ i \in 1..Len(pending)
  /\ pending[i].op = "stop"
  /\ pending' = Remove(pending, i)
  /\ lastReturn' = Returned("stopSession", outcome, StopReturn(outcome))
  /\ sessionId' = SessionIdAfterStop(sessionId, outcome)
  /\ UNCHANGED <<isMonitoring, status, violationCounts, nextSessionId, endRequests,
                 callNo, lastCall, accepted>>
  /\ UNCHANGED <<roundVars, weightVars, codingVars, detectorVars>>

\* logViolation that counts the known types only and drops any other type
CountsAfterLog_DropsUnknown(counts, sid, type) ==
  IF sid = 0 \/ type \notin DOMAIN counts
  THEN counts
  ELSE [counts EXCEPT ![type] = counts[type] + 1]

\* violationCountsRef.current after logViolation(type) of a closure whose sessionId is sid
CountsAfterLog(counts, sid, type) ==
  IF sid = 0
  THEN counts
  ELSE IF type \in DOMAIN counts
       THEN [counts EXCEPT ![type] = counts[type] + 1]
       ELSE [t \in (DOMAIN counts) \cup {type} |-> IF t = type THEN 1 ELSE counts[t]]

CountOf(counts, type) == IF type \in DOMAIN counts THEN counts[type] ELSE 0

\* logViolation called by a detector; the callback it holds is the one of the
\* latest render
LogViolationCall(type) ==
  /\ callNo < MaxCalls
  /\ CountOf(violationCounts, type) < MaxCount
  /\ violationCounts' = CountsAfterLog(violationCounts, sessionId, type)
  /\ accepted' = Accept(accepted, sessionId, type)
  /\ UNCHANGED lastReturn
  /\ callNo' = callNo + 1
  /\ lastCall' = Call("logViolation", type, sessionId)
  /\ UNCHANGED <<sessionId, isMonitoring, status, pending, nextSessionId, endRequests>>

\* logViolation called on its own
LogViolation(type) ==
  /\ LogViolationCall(type)
  /\ UNCHANGED <<roundVars, weightVars, codingVars, detectorVars>>

(***************************************************************************)
(* The detectors and the way the pages wire them to the hook               *)
(***************************************************************************)
DetectorsInit ==
  /\ signals = 0
  /\ lastSignal = [detector |-> "none", type |-> ""]

\* a detector raises a signal with a type tag
Raise(detector, type) ==
  /\ signals < MaxSignals
  /\ signals' = signals + 1
  /\ lastSignal' = [detector |-> detector, type |-> type]

\* useFaceDetection calls addViolation (no face in the frame, or the tab was
\* hidden); the page's onViolation maps the type and calls logViolation
FaceDetected(type) ==
  /\ isMonitoring
  /\ Raise("face", type)
  /\ LogViolationCall(type)
  /\ UNCHANGED <<roundVars, weightVars, codingVars>>

\* useAudioDetection measures a level above the threshold and calls
\* onViolation; the coding page's callback writes to the console
AudioDetected ==
  /\ isMonitoring
  /\ Raise("audio", "suspicious_noise")
  /\ UNCHANGED <<roundVars, proctorVars, weightVars, codingVars>>

\* handleVisibilityChange of the hook: the pages pass no onViolation, so the
\* optional call does nothing
VisibilityChanged ==
  /\ sessionId # 0
  /\ Raise("visibility", "tab_switch")
  /\ UNCHANGED <<roundVars, proctorVars, weightVars, codingVars>>

\* ActivityMonitor sees a copy or paste, the mouse leaving or the tab being
\* hidden: logActivityToBackend returns at once because the pages pass no
\* sessionId, and the onViolation the pages pass is not a prop it reads
ActivityDetected(type) ==
  /\ Raise("activity", type)
  /\ UNCHANGED <<roundVars, proctorVars, weightVars, codingVars>>

\* analyzeFrame up to its await fetch(...)
AnalyzeFrame ==
  /\ callNo < MaxCalls
  /\ Len(pending) < MaxPending
  /\ sessionId # 0
  /\ pending' = Append(pending, [op |-> "analyze", sid |-> sessionId])
  /\ callNo' = callNo + 1
  /\ lastCall' = Call("analyzeFrame", "", sessionId)
  /\ UNCHANGED <<sessionId, isMonitoring, status, violationCounts, nextSessionId, endRequests,
                 accepted, lastReturn>>
  /\ UNCHANGED <<roundVars, weightVars, codingVars, detectorVars>>

\* analyzeFrame after its await; result is the violation found, "clear" when
\* the frame shows none, "none" when there is no analysis or the fetch failed
AnalyzeResponse(i, result) ==
  /\ i \in 1..Len(pending)
  /\ pending[i].op = "analyze"
  /\ pending' = Remove(pending, i)
  /\ IF result \in {"no_face", "multiple_faces", "looking_away"}
     THEN /\ callNo < MaxCalls
          /\ CountOf(violationCounts, result) < MaxCount
          /\ status' = "warning"
          /\ violationCounts' = CountsAfterLog(violationCounts, pending[i].sid, result)
          /\ accepted' = Accept(accepted, pending[i].sid, result)
          /\ callNo' = callNo + 1
          /\ lastCall' = Call("logViolation", result, pending[i].sid)
     ELSE IF result = "clear"
     THEN /\ status' = "active"
          /\ UNCHANGED <<violationCounts, callNo, lastCall, accepted>>
     ELSE UNCHANGED <<status, violationCounts, callNo, lastCall, accepted>>
  /\ UNCHANGED <<sessionId, isMonitoring, nextSessionId, endRequests, lastReturn>>
  /\ UNCHANGED <<roundVars, weightVars, codingVars, detectorVars>>

(***************************************************************************)
(* EvaluationCriteria: the weight editor.  Percentages are held in          *)
(* hundredths of a point (10000 is 100%), the precision toFixed(2) keeps.   *)
(***************************************************************************)
Fields == {"technical_skill", "psychometric_assessment", "soft_skill", "fairplay"}

\* the order in which the handler lists the fields
FieldOrder == <<"technical_skill", "psychometric_assessment", "soft_skill", "fairplay">>

\* 100 percent, in hundredths
Hundred == 10000

\* the numbers typed into a field, in hundredths (some out of range)
TypedNumbers == {-500, 0, 1000, 3333, 6000, 10000, 15000}

\* the text of the input: "empty" is the cleared field, "nan" a text parseFloat
\* cannot read, "num" a number
RawValues ==
  {[kind |-> "empty", num |-> 0], [kind |-> "nan", num |-> 0]}
    \cup {[kind |-> "num", num |-> n] : n \in TypedNumbers}


\* the weights a new or reset record holds on the server
DefaultWeights ==
  [f \in Fields |->
     CASE f = "technical_skill" -> 5000
       [] f = "psychometric_assessment" -> 1500
       [] f = "soft_skill" -> 1500
       [] OTHER -> 2000]

\* the record GET returns when the recruiter has saved nothing, and after a reset
DefaultRecord == [weights |-> DefaultWeights, is_default |-> TRUE]

\* a suspended request: kind is "fetch", "save" or "reset", origin the caller of
\* a fetch ("mount", "save" or "reset"), body the weights a save sends
WeightRequest(kind, origin, body) == [kind |-> kind, origin |-> origin, body |-> body]

\* the body of a request that sends no weights
NoBody == [f \in Fields |-> 0]
\* the texts typed while the buttons are in use: the cleared field and 60
FewValues == {[kind |-> "empty", num |-> 0], [kind |-> "num", num |-> 6000]}

WeightsInit ==
  /\ criteria = [f \in Fields |->
                   CASE f = "technical_skill" -> 3750
                     [] f = "psychometric_assessment" -> 2500
                     [] f = "soft_skill" -> 2500
                     [] OTHER -> 1250]
  /\ is_default = TRUE
  /\ lockedFields = {}
  /\ edits = 0
  /\ lastEdit = [field |-> "", value |-> [kind |-> "none", num |-> 0]]
  /\ criteriaLoading = FALSE
  /\ weightPending = <<WeightRequest("fetch", "mount", NoBody)>>
  /\ server = DefaultRecord
  /\ requests = 0
  /\ lastSettled = [kind |-> "none", origin |-> "none", outcome |-> "none"]

Abs(x) == IF x < 0 THEN -x ELSE x

Max(a, b) == IF a > b THEN a ELSE b

Min(a, b) == IF a < b THEN a ELSE b

\* Math.max(0, Math.min(100, x))
Clamp(x) == Max(0, Min(Hundred, x))

\* parseFloat((n / d).toFixed(2)) for d > 0: the nearest hundredth, halves away from zero
RoundDiv(n, d) == IF n >= 0 THEN (2 * n + d) \div (2 * d) ELSE -((2 * (-n) + d) \div (2 * d))

RECURSIVE SumOver(_, _)
\* fields.reduce((sum, f) => sum + values[f], 0)
SumOver(values, fields) ==
  IF fields = {} THEN 0
  ELSE LET f == CHOOSE x \in fields : TRUE
       IN values[f] + SumOver(values, fields \ {f})

\* FieldOrder.filter(f => f \in keep), as the indices kept
Kept(keep) == {i \in 1..Len(FieldOrder) : FieldOrder[i] \in keep}

\* parseFloat(Math.max(0, Math.min(100, current[f] - difference * current[f] / sum)).toFixed(2))
Proportional(cur, difference, sum) ==
  LET n == cur * sum - difference * cur
  IN IF n <= 0 THEN 0
     ELSE IF n >= Hundred * sum THEN Hundred
     ELSE RoundDiv(n, sum)

\* newValues after the forEach over the fields to adjust
Redistributed(current, field, numValue, adjust, sum) ==
  [f \in Fields |->
     IF f = field THEN numValue
     ELSE IF f \in adjust THEN Proportional(current[f], numValue - current[field], sum)
     ELSE current[f]]

\* fieldsToAdjust.reduce((max, f) => newValues[f] > newValues[max] ? f : max, fieldsToAdjust[0])
LargestAdjustable(newValues, adjust) ==
  LET idx == Kept(adjust)
      best == CHOOSE i \in idx :
                /\ \A j \in idx : newValues[FieldOrder[j]] <= newValues[FieldOrder[i]]
                /\ \A j \in idx : (j < i) => newValues[FieldOrder[j]] < newValues[FieldOrder[i]]
  IN FieldOrder[best]

\* the residual correction on the largest adjustable field
Corrected(newValues, adjust) ==
  LET total == SumOver(newValues, Fields)
  IN IF Abs(total - Hundred) > 1 /\ adjust # {}
     THEN LET g == LargestAdjustable(newValues, adjust)
          IN [newValues EXCEPT ![g] = Max(0, newValues[g] + (Hundred - total))]
     ELSE newValues

\* a filter that leaves out the edited field only
FieldsToAdjust_IgnoresLocks(locked, field) == Fields \ {field}

\* the fields to adjust: every field but the edited one and the locked ones
FieldsToAdjust(locked, field) == (Fields \ {field}) \ locked

\* the criteria the setCriteria updater of handleCriteriaChange returns for a
\* number numValue (already clamped); locked is the lockedFields of the render
NewCriteria(current, locked, field, numValue) ==
  LET difference == numValue - current[field]
      fieldsToAdjust == FieldsToAdjust(locked, field)
      otherFields == Fields \ {field}
  IN IF Abs(difference) < 1
     THEN [current EXCEPT ![field] = numValue]
     ELSE IF fieldsToAdjust = {}
     THEN IF SumOver(current, otherFields) > 0
          THEN Redistributed(current, field, numValue, otherFields, SumOver(current, otherFields))
          ELSE [current EXCEPT ![field] = numValue]
     ELSE IF SumOver(current, fieldsToAdjust) > 0
     THEN Corrected(Redistributed(current, field, numValue, fieldsToAdjust,
                                  SumOver(current, fieldsToAdjust)),
                    fieldsToAdjust)
     ELSE LET lockedSum == SumOver(current, locked)
              splitAmount == RoundDiv(Hundred - numValue - lockedSum, Cardinality(fieldsToAdjust))
          IN [f \in Fields |->
                IF f = field THEN numValue
                ELSE IF f \in fieldsToAdjust THEN splitAmount
                ELSE current[f]]

\* lockedFields after handleCriteriaChange with a number
NewLocked(current, locked, field, numValue) ==
  IF Abs(numValue - current[field]) >= 1 /\ FieldsToAdjust(locked, field) = {}
  THEN {field}
  ELSE locked \cup {field}

HandleCriteriaChange(field, value) ==
  /\ edits < MaxEdits
  /\ edits' = edits + 1
  /\ lastEdit' = [field |-> field, value |-> value]
  /\ IF value.kind = "empty"
     THEN \* the field was cleared: it reads 0 and nothing else moves
          /\ criteria' = [criteria EXCEPT ![field] = 0]
          /\ is_default' = FALSE
          /\ UNCHANGED lockedFields
     ELSE IF value.kind = "nan"
     THEN UNCHANGED <<criteria, is_default, lockedFields>>
     ELSE /\ criteria' = NewCriteria(criteria, lockedFields, field, Clamp(value.num))
          /\ is_default' = FALSE
          /\ lockedFields' = NewLocked(criteria, lockedFields, field, Clamp(value.num))
  /\ UNCHANGED <<criteriaLoading, weightPending, server, requests, lastSettled>>
  /\ UNCHANGED <<roundVars, proctorVars, codingVars, detectorVars>>

\* the text onBlur passes on: parseFloat(e.target.value).toFixed(2), which for
\* a weight held in hundredths is the weight shown in the field
BlurValue(current, field) == [kind |-> "num", num |-> current[field]]

\* onBlur of a weight's input
HandleBlur(field) == HandleCriteriaChange(field, BlurValue(criteria, field))

\* the step settles the suspended request i of the weight editor
Settle(i, kind, outcome) ==
  /\ i <= Len(weightPending)
  /\ weightPending[i].kind = kind
  /\ lastSettled' = [kind |-> kind, origin |-> weightPending[i].origin, outcome |-> outcome]

\* the continuation of fetchEvaluationCriteria after its fetch: "ok" is a
\* response with success and criteria, "failed" any other response or a
\* network error
FetchCriteriaResponse(i, outcome) ==
  /\ Settle(i, "fetch", outcome)
  /\ weightPending' = Remove(weightPending, i)
  /\ IF outcome = "ok"
     THEN /\ criteria' = server.weights
          /\ is_default' = server.is_default
          /\ lockedFields' = {}
     ELSE UNCHANGED <<criteria, is_default, lockedFields>>
  /\ UNCHANGED <<edits, lastEdit, criteriaLoading, server, requests>>
  /\ UNCHANGED <<roundVars, proctorVars, codingVars, detectorVars>>

\* parseFloat(total.toFixed(2)) of the four weights
getTotalPercentage == SumOver(criteria, Fields)

\* click on Save Criteria, up to the POST
HandleSaveCriteria ==
  /\ requests < MaxRequests
  /\ Len(weightPending) < MaxWeightPending
  /\ ~criteriaLoading
  /\ Abs(getTotalPercentage - Hundred) <= 1
  /\ requests' = requests + 1
  /\ criteriaLoading' = TRUE
  /\ weightPending' = Append(weightPending, WeightRequest("save", "save", criteria))
  /\ UNCHANGED <<criteria, is_default, lockedFields, edits, lastEdit, server, lastSettled>>
  /\ UNCHANGED <<roundVars, proctorVars, codingVars, detectorVars>>

\* the server's validation of a saved record: every weight in 0..100 and a sum of 100
ValidRecord(body) ==
  /\ \A f \in Fields : 0 <= body[f] /\ body[f] <= Hundred
  /\ SumOver(body, Fields) = Hundred

\* the continuation of handleSaveCriteria after its POST: on success the
\* server holds the saved weights and the page fetches them again
SaveResponse(i, outcome) ==
  /\ Settle(i, "save", outcome)
  /\ (outcome = "ok") => ValidRecord(weightPending[i].body)
  /\ criteriaLoading' = FALSE
  /\ IF outcome = "ok"
     THEN /\ server' = [weights |-> weightPending[i].body, is_default |-> FALSE]
          /\ weightPending' = Append(Remove(weightPending, i),
                                     WeightRequest("fetch", "save", NoBody))
     ELSE /\ weightPending' = Remove(weightPending, i)
          /\ UNCHANGED server
  /\ UNCHANGED <<criteria, is_default, lockedFields, edits, lastEdit, requests>>
  /\ UNCHANGED <<roundVars, proctorVars, codingVars, detectorVars>>

\* click on Reset to Defaults, up to the POST
HandleResetToDefaults ==
  /\ requests < MaxRequests
  /\ Len(weightPending) < MaxWeightPending
  /\ ~criteriaLoading
  /\ requests' = requests + 1
  /\ criteriaLoading' = TRUE
  /\ weightPending' = Append(weightPending, WeightRequest("reset", "reset", NoBody))
  /\ UNCHANGED <<criteria, is_default, lockedFields, edits, lastEdit, server, lastSettled>>
  /\ UNCHANGED <<roundVars, proctorVars, codingVars, detectorVars>>

\* the continuation of handleResetToDefaults after its POST: on success the
\* server holds the default record and the page fetches it
ResetResponse(i, outcome) ==
  /\ Settle(i, "reset", outcome)
  /\ criteriaLoading' = FALSE
  /\ IF outcome = "ok"
     THEN /\ server' = DefaultRecord
          /\ weightPending' = Append(Remove(weightPending, i),
                                     WeightRequest("fetch", "reset", NoBody))
     ELSE /\ weightPending' = Remove(weightPending, i)
          /\ UNCHANGED server
  /\ UNCHANGED <<criteria, is_default, lockedFields, edits, lastEdit, requests>>
  /\ UNCHANGED <<roundVars, proctorVars, codingVars, detectorVars>>

(***************************************************************************)
(* CodingTest: the page of the coding round, with its time limit           *)
(***************************************************************************)
Codes == 1..MaxCode

CodingRequest(op, c) == [op |-> op, code |-> c]

\* the state of a freshly mounted CodingTest; fetchConfig is under way
CodingInit ==
  /\ timeRemaining = -1
  /\ timerStarted = FALSE
  /\ code = 0
  /\ isSubmitting = FALSE
  /\ codingPending = <<CodingRequest("config", 0)>>
  /\ codeSubmits = <<>>
  /\ completeCalls = 0
  /\ roundDone = FALSE
  /\ tokenPresent = TRUE
  /\ codingLocation = "coding-test"
  /\ navPending = FALSE

\* handleComplete up to its await fetch(...)
HandleCompleteCall ==
  /\ Len(codingPending) < MaxCodingPending
  /\ completeCalls < MaxCompletes
  /\ codingPending' = Append(codingPending, CodingRequest("complete", 0))
  /\ completeCalls' = completeCalls + 1

\* fetchConfig after its awaits: data.success starts the timer with the
\* configured limit; any other answer, or an exception, leaves it unset
FetchConfigResponse(i, ok) ==
  /\ codingLocation = "coding-test"
  /\ i \in 1..Len(codingPending)
  /\ codingPending[i].op = "config"
  /\ codingPending' = Remove(codingPending, i)
  /\ IF ok
     THEN timeRemaining' = MaxTime /\ timerStarted' = TRUE
     ELSE UNCHANGED <<timeRemaining, timerStarted>>
  /\ UNCHANGED <<code, isSubmitting, codeSubmits, completeCalls, roundDone, tokenPresent,
                 codingLocation, navPending>>
  /\ UNCHANGED <<roundVars, proctorVars, weightVars, detectorVars>>

\* the setInterval callback of the timer effect; the effect that runs after
\* the render with timeRemaining 0 calls handleComplete()
Tick ==
  /\ codingLocation = "coding-test"
  /\ timerStarted
  /\ timeRemaining > 0
  /\ timeRemaining' = timeRemaining - 1
  /\ IF timeRemaining' <= 0
     THEN HandleCompleteCall
     ELSE UNCHANGED <<codingPending, completeCalls>>
  /\ UNCHANGED <<timerStarted, code, isSubmitting, codeSubmits, roundDone, tokenPresent,
                 codingLocation, navPending>>
  /\ UNCHANGED <<roundVars, proctorVars, weightVars, detectorVars>>

\* the editor's onChange: setCode(value || '')
SetCode(c) ==
  /\ codingLocation = "coding-test"
  /\ code' = c
  /\ UNCHANGED <<timeRemaining, timerStarted, isSubmitting, codingPending, codeSubmits,
                 completeCalls, roundDone, tokenPresent, codingLocation, navPending>>
  /\ UNCHANGED <<roundVars, proctorVars, weightVars, detectorVars>>

\* handleSubmit up to its await fetch(...); the button is disabled while
\* isSubmitting
HandleSubmit ==
  /\ codingLocation = "coding-test"
  /\ ~isSubmitting
  /\ IF code = 0
     THEN \* 'Please write some code first'
          UNCHANGED <<isSubmitting, codingPending, codeSubmits>>
     ELSE /\ Len(codingPending) < MaxCodingPending
          /\ Len(codeSubmits) < MaxSubmits
          /\ isSubmitting' = TRUE
          /\ codingPending' = Append(codingPending, CodingRequest("submit", code))
          /\ codeSubmits' = Append(codeSubmits, [code |-> code, token |-> tokenPresent])
  /\ UNCHANGED <<timeRemaining, timerStarted, code, completeCalls, roundDone, tokenPresent,
                 codingLocation, navPending>>
  /\ UNCHANGED <<roundVars, proctorVars, weightVars, detectorVars>>

\* handleSubmit after its awaits: whatever the answer, isSubmitting is reset
SubmitResponse(i) ==
  /\ i \in 1..Len(codingPending)
  /\ codingPending[i].op = "submit"
  /\ codingPending' = Remove(codingPending, i)
  /\ isSubmitting' = FALSE
  /\ UNCHANGED <<timeRemaining, timerStarted, code, codeSubmits, completeCalls, roundDone,
                 tokenPresent, codingLocation, navPending>>
  /\ UNCHANGED <<roundVars, proctorVars, weightVars, detectorVars>>

\* the "Complete" button: handleComplete up to its await
HandleComplete ==
  /\ codingLocation = "coding-test"
  /\ HandleCompleteCall
  /\ UNCHANGED <<timeRemaining, timerStarted, code, isSubmitting, codeSubmits, roundDone,
                 tokenPresent, codingLocation, navPending>>
  /\ UNCHANGED <<roundVars, proctorVars, weightVars, detectorVars>>

\* handleComplete after its awaits: on data.success it stops the proctoring
\* session, removes the token and schedules the redirect; otherwise it shows
\* a toast and nothing else
CompleteResponse(i, ok) ==
  /\ i \in 1..Len(codingPending)
  /\ codingPending[i].op = "complete"
  /\ codingPending' = Remove(codingPending, i)
  /\ IF ok
     THEN /\ roundDone' = TRUE
          /\ StopSessionCall(sessionId)
          /\ tokenPresent' = FALSE
          /\ navPending' = TRUE
     ELSE /\ UNCHANGED <<roundDone, tokenPresent, navPending>>
          /\ UNCHANGED proctorVars
  /\ UNCHANGED <<timeRemaining, timerStarted, code, isSubmitting, codeSubmits, completeCalls,
                 codingLocation>>
  /\ UNCHANGED <<roundVars, weightVars, detectorVars>>

\* the setTimeout callback navigate('/'): the page unmounts and its cleanup
\* calls the stopProctorSession of the first render, whose sessionId is null
NavigateHome ==
  /\ codingLocation = "coding-test"
  /\ navPending
  /\ navPending' = FALSE
  /\ codingLocation' = "/"
  /\ StopSessionCall(0)
  /\ UNCHANGED <<timeRemaining, timerStarted, code, isSubmitting, codingPending, codeSubmits,
                 completeCalls, roundDone, tokenPresent>>
  /\ UNCHANGED <<roundVars, weightVars, detectorVars>>

(***************************************************************************)
(* Specifications                                                          *)
(***************************************************************************)
Init == RoundsInit /\ ProctorInit /\ WeightsInit /\ CodingInit /\ DetectorsInit

\* the Assessment page
RoundsNext ==
  \/ CheckCandidateStatus
  \/ \E r \in Rounds : LoadQuestions(r)
  \/ \E v \in Values : HandleAnswerChange(v)
  \/ HandlePrevious
  \/ HandleNext
  \/ HandleSubmitQuestion
  \/ ConfirmSubmit
  \/ CancelSubmit
  \/ \E i \in 1..MaxTimers : MoveToNextRound(i)
  \/ \E i \in 1..MaxTimers : Navigate(i)
  \/ \E i \in 1..MaxInflight, ok \in BOOLEAN : NetworkResponse(i, ok)
  \/ Reload

SpecRounds == Init /\ [][RoundsNext]_vars

\* the proctoring hook
ProctorNext ==
  \/ StartSession
  \/ \E i \in 1..MaxPending, outcome \in {"ok", "http_error", "network_error"} :
       StartResponse(i, outcome)
  \/ \E sid \in {0, sessionId} : StopSession(sid)
  \/ \E i \in 1..MaxPending, outcome \in {"ok", "http_error", "network_error"} :
       StopResponse(i, outcome)
  \/ \E type \in RaisedTypes : LogViolation(type)
  \/ AnalyzeFrame
  \/ \E i \in 1..MaxPending,
        result \in {"no_face", "multiple_faces", "looking_away", "clear", "none"} :
       AnalyzeResponse(i, result)

SpecProctor == Init /\ [][ProctorNext]_vars

\* the weight editor: an editing session and the fetch of the mount effect
WeightsNext ==
  \/ \E field \in Fields, value \in RawValues : HandleCriteriaChange(field, value)
  \/ \E field \in Fields : HandleBlur(field)
  \/ \E i \in 1..MaxWeightPending, outcome \in {"ok", "failed"} : FetchCriteriaResponse(i, outcome)

SpecWeights == Init /\ [][WeightsNext]_vars

\* the weight editor with its Save Criteria and Reset to Defaults buttons
CriteriaNext ==
  \/ \E field \in Fields, value \in FewValues : HandleCriteriaChange(field, value)
  \/ \E i \in 1..MaxWeightPending, outcome \in {"ok", "failed"} : FetchCriteriaResponse(i, outcome)
  \/ HandleSaveCriteria
  \/ \E i \in 1..MaxWeightPending, outcome \in {"ok", "failed"} : SaveResponse(i, outcome)
  \/ HandleResetToDefaults
  \/ \E i \in 1..MaxWeightPending, outcome \in {"ok", "failed"} : ResetResponse(i, outcome)

SpecCriteria == Init /\ [][CriteriaNext]_vars

\* the page of the coding round
CodingNext ==
  \/ StartSession   \* initProctoring
  \/ \E i \in 1..MaxPending, outcome \in {"ok", "http_error", "network_error"} :
       StartResponse(i, outcome)
  \/ \E i \in 1..MaxCodingPending, ok \in BOOLEAN : FetchConfigResponse(i, ok)
  \/ Tick
  \/ \E c \in Codes : SetCode(c)
  \/ HandleSubmit
  \/ \E i \in 1..MaxCodingPending : SubmitResponse(i)
  \/ HandleComplete
  \/ \E i \in 1..MaxCodingPending, ok \in BOOLEAN : CompleteResponse(i, ok)
  \/ NavigateHome
  \/ \E i \in 1..MaxPending, outcome \in {"ok", "http_error", "network_error"} :
       StopResponse(i, outcome)

SpecCoding == Init /\ [][CodingNext]_vars

\* the proctoring hook with the detectors of the pages
DetectorsNext ==
  \/ StartSession
  \/ \E i \in 1..MaxPending, outcome \in {"ok", "http_error", "network_error"} :
       StartResponse(i, outcome)
  \/ \E sid \in {0, sessionId} : StopSession(sid)
  \/ \E i \in 1..MaxPending, outcome \in {"ok", "http_error", "network_error"} :
       StopResponse(i, outcome)
  \/ \E type \in {"no_face", "tab_switch"} : FaceDetected(type)
  \/ AudioDetected
  \/ VisibilityChanged
  \/ \E type \in {"copy_paste", "mouse_exit", "tab_switch"} : ActivityDetected(type)

SpecDetectors == Init /\ [][DetectorsNext]_vars

Next == RoundsNext \/ ProctorNext \/ WeightsNext \/ CriteriaNext \/ CodingNext \/ DetectorsNext

Spec == Init /\ [][Next]_vars

(***************************************************************************)
(* Claims about the round orchestration (SpecRounds)                       *)
(***************************************************************************)
Completed(r) == roundProgress[r].status = "completed"

\* the page is mounted and past its loading screen
PageActive == location = "assessment" /\ ~loading

\* no completion is still waiting for its deferred moveToNextRound
NoMovePending ==
  /\ \A i \in 1..Len(timers) : timers[i].kind # "move"
  /\ inflight = <<>>

\* C1: when completeCurrentRound has been run once for each of the first n
\* rounds (n < 4), in the fixed order, on an attempt that started with no
\* round completed, and the advance of the last completion has run,
\* currentRound is round n+1 of the order.
C1_RoundOrder ==
  \A n \in 1..3 :
    (lastFlags = {NoFlags} /\ completions = SubSeq(ROUND_ORDER, 1, n) /\ NoMovePending)
      => currentRound = ROUND_ORDER[n + 1]

\* C2: within one mounted page, completing a round that is already completed
\* leaves its completedAt as it was.
C2_CompletedUnchanged ==
  [][\A r \in Rounds :
       (Completed(r) /\ reloads' = reloads)
         => roundProgress'[r].completedAt = roundProgress[r].completedAt]_vars

\* C3: while the page is in use, the round named by currentRound is never
\* one whose status is completed.
C3_AtomicAdvance == PageActive => ~Completed(currentRound)

FlagOf(flags, r) ==
  CASE r = "mcq" -> flags.mcq
    [] r = "psychometric" -> flags.psychometric
    [] r = "text-based" -> flags.text_based
    [] OTHER -> flags.coding

\* checkCandidateStatus has read the flags and no round has been completed or
\* started by the page since
InitializedOnly ==
  /\ lastFlags # {}
  /\ \A r \in Rounds : roundProgress[r].completedAt = 0 /\ roundProgress[r].startedAt = 0

\* C4: right after initialization from the server flags, exactly the flagged
\* rounds are completed and currentRound is the first round of the fixed order
\* whose flag is false.
C4_Initialize ==
  InitializedOnly =>
    \A flags \in lastFlags :
      /\ \A r \in Rounds : Completed(r) <=> FlagOf(flags, r)
      /\ \A i \in 1..Len(ROUND_ORDER) :
           (/\ ~FlagOf(flags, ROUND_ORDER[i])
            /\ \A j \in 1..(i - 1) : FlagOf(flags, ROUND_ORDER[j]))
             => currentRound = ROUND_ORDER[i]

\* C5: every round earlier in the fixed order than currentRound is completed.
C5_EarlierCompleted ==
  \A i \in 1..Len(ROUND_ORDER) :
    (i < IndexOf(currentRound)) => Completed(ROUND_ORDER[i])

InProgress == {r \in Rounds : roundProgress[r].status = "in-progress"}

\* C6: while the page is in use, exactly one round is in-progress, or none
\* when all four rounds are completed.
C6_OneInProgress ==
  PageActive =>
    \/ Cardinality(InProgress) = 1
    \/ (InProgress = {} /\ \A r \in Rounds : Completed(r))

\* C7: within one mounted page, the answers of a completed round never change.
C7_LockedAnswers ==
  [][\A r \in Rounds :
       (Completed(r) /\ reloads' = reloads)
         => roundProgress'[r].answers = roundProgress[r].answers]_vars

(***************************************************************************)
(* Claims about the weight editor (SpecWeights)                            *)
(***************************************************************************)
Total == SumOver(criteria, Fields)

\* C8: after every edit with a number (in range or not), whatever the lock
\* set, the four weights sum to 100 within 0.01.
C8_SumIsHundred == (lastEdit.value.kind = "num") => Abs(Total - Hundred) <= 1

(***************************************************************************)
(* Claims about the proctoring session (SpecProctor)                       *)
(***************************************************************************)
\* the step is a call of logViolation
LogViolationCalled == callNo' # callNo /\ lastCall'.op = "logViolation"

\* C9: a call of logViolation changes the recorded counts if and only if the
\* hook holds a sessionId at the time of the call.
C9_RecordedIffSession ==
  [][LogViolationCalled => ((violationCounts' # violationCounts) <=> (sessionId # 0))]_vars

\* the step settles the fetch of the latest stopSession, called for the session
\* the hook holds, with nothing else in flight
StopSettled ==
  /\ lastCall.op = "stopSession"
  /\ Len(pending) = 1
  /\ pending[1].op = "stop"
  /\ sessionId # 0
  /\ pending[1].sid = sessionId
  /\ pending' = <<>>

\* C10: once stopSession has settled, its network call failed or not, the
\* status is idle and the sessionId is discarded.
C10_EndDiscardsSession ==
  [][StopSettled => (status' = "idle" /\ sessionId' = 0)]_vars

\* the step is a call of stopSession
StopSessionCalled == callNo' # callNo /\ lastCall'.op = "stopSession"

\* C11: a call of stopSession while the hook holds no sessionId sends no
\* request to the server.
C11_EndWithoutSessionIsNoOp ==
  [][(StopSessionCalled /\ sessionId = 0)
       => (endRequests' = endRequests /\ pending' = pending)]_vars

\* C12: the counts a call of stopSession sends hold, for every type tag, the
\* number of logViolation calls with that tag accepted since the session's
\* start; a tag outside the initial keys is counted under its own name.
C12_CountsByType ==
  [][StopSessionCalled =>
       \E q \in endRequests' :
         /\ q.session_id = lastCall'.sid
         /\ \A t \in AllTypes : CountOf(q.violation_counts, t) = accepted[t]]_vars

\* a summary was sent that counts a known tag and a tag outside the initial keys
C12_Witness ==
  \E q \in endRequests :
    /\ q.session_id # 0
    /\ CountOf(q.violation_counts, "suspicious_noise") = 1
    /\ CountOf(q.violation_counts, "tab_switch") = 1
    /\ accepted["suspicious_noise"] = 1
    /\ lastCall.op = "stopSession"

\* C13: the counts sent for a session hold an entry for every one of the nine
\* vocabulary types (the eight initial keys and suspicious_noise), 0 when no
\* call carried the type.
C13_EveryVocabularyType ==
  \A q \in endRequests :
    (q.session_id # 0) =>
      (KnownTypes \cup {"suspicious_noise"}) \subseteq DOMAIN q.violation_counts

\* the step is the success branch of startSession: the server issued a session id
StartSucceeded == nextSessionId' # nextSessionId

C15_NoQuestionOmitted ==
  \A p \in lastPayload :
    \A q \in QuestionIds : \E e \in p.entries : e.question_id = q

\* the step is checkCandidateStatus reading the server's completion flags
Reconciled == lastFlags = {} /\ lastFlags' # {}

\* C16: when checkCandidateStatus has read the server flags, every round the
\* server flags as completed is completed in roundProgress, and currentRound
\* is not earlier in the fixed order than it was before.
C16_ServerWins ==
  [][Reconciled =>
       \A flags \in lastFlags' :
         /\ \A r \in Rounds : FlagOf(flags, r) => roundProgress'[r].status = "completed"
         /\ IndexOf(currentRound') >= IndexOf(currentRound)]_vars

(***************************************************************************)
(* Claims about the coding round's time limit (SpecCoding)                 *)
(***************************************************************************)
\* the time limit has expired
Expired == timerStarted /\ timeRemaining = 0

\* C17: once the time limit has expired, no code is submitted any more under
\* the candidate's token.
C17_NoWriteAfterExpiry ==
  [][Expired => \A k \in (Len(codeSubmits) + 1)..Len(codeSubmits') : ~codeSubmits'[k].token]_vars

\* C18: when the fetch of startSession or stopSession fails, the call returns
\* an error result to its caller.
C18_FailureReported ==
  (lastReturn.outcome = "network_error") => (lastReturn.value \in {"null", "error"})

\* the step edits a field to the value it holds
EditedToCurrentValue ==
  /\ edits' # edits
  /\ lastEdit'.value.kind = "num"
  /\ lastEdit'.value.num = criteria[lastEdit'.field]

\* C19: an edit of a field to the value it holds leaves the four weights
\* unchanged.
C19_Idempotent == [][EditedToCurrentValue => criteria' = criteria]_vars

\* the step edits a field with a number while no other field is locked and
\* the other fields hold something to share
EditedWithOthersUnlocked ==
  /\ edits' # edits
  /\ lastEdit'.value.kind = "num"
  /\ lockedFields \ {lastEdit'.field} = {}
  /\ SumOver(criteria, Fields \ {lastEdit'.field}) > 0

\* C20: when a field f is edited by delta and no other field is locked, every
\* other field g changes by -delta * old(g) / (sum of the other fields' old
\* values), within the rounding of 0.02.
C20_Proportional ==
  [][EditedWithOthersUnlocked =>
       LET f == lastEdit'.field
           delta == criteria'[f] - criteria[f]
           sum == SumOver(criteria, Fields \ {f})
       IN \A g \in Fields \ {f} :
            Abs((criteria'[g] - criteria[g]) * sum + delta * criteria[g]) <= 2 * sum]_vars

(***************************************************************************)
(* Claims about the locks of the weight editor (SpecWeights)               *)
(***************************************************************************)
\* the step is an edit of a weight
Edited == edits' # edits

\* the fields other than the edited one that are unlocked and hold a weight
\* other than zero
Absorbers == {h \in (Fields \ {lastEdit'.field}) \ lockedFields : criteria[h] # 0}

EditedWithNoAbsorber ==
  /\ Edited
  /\ lastEdit'.value.kind = "num"
  /\ Abs(Clamp(lastEdit'.value.num) - criteria[lastEdit'.field]) >= 1
  /\ Absorbers = {}

\* C22: when a field f is edited and no unlocked other field holds a non-zero
\* weight (none is unlocked, or the unlocked ones sum to zero), no field other
\* than f stays locked and every other field changes by a third of -delta,
\* within the rounding of 0.01, unless the clamp to [0, 100] stops it.
C22_FallbackSplitsEvenly ==
  [][EditedWithNoAbsorber =>
       LET f == lastEdit'.field
           delta == criteria'[f] - criteria[f]
       IN /\ lockedFields' \ {f} = {}
          /\ \A g \in Fields \ {f} :
               \/ Abs(3 * (criteria'[g] - criteria[g]) + delta) <= 3
               \/ criteria'[g] \in {0, Hundred}]_vars

\* C23: each of the four weights lies in [0, 100].
C23_WeightsInRange == \A f \in Fields : 0 <= criteria[f] /\ criteria[f] <= Hundred

(***************************************************************************)
(* Claims about loading, saving and resetting the weights (SpecCriteria)   *)
(***************************************************************************)
\* the step settles the fetch that a successful reset started
ResetFetched == lastSettled' = [kind |-> "fetch", origin |-> "reset", outcome |-> "ok"]

\* C24: every edit that changes a weight leaves is_default false, and
\* is_default turns from false to true only in the step that completes an
\* explicit reset, which sets the weights to 50/15/15/20 in the same step.
C24_DefaultOnlyByReset ==
  [][/\ (Edited /\ lastEdit'.value.kind # "nan") => ~is_default'
     /\ (~is_default /\ is_default') => (ResetFetched /\ criteria' = DefaultWeights)]_vars

\* the step settles a fetchEvaluationCriteria call
FetchSettled == Len(weightPending') < Len(weightPending) /\ lastSettled'.kind = "fetch"

\* C25: when a fetch from the server has answered with the criteria, and when
\* the fetch that completes a successful reset has settled, the locked set
\* is empty.
C25_LocksCleared ==
  [][(FetchSettled /\ (lastSettled'.outcome = "ok" \/ lastSettled'.origin = "reset"))
       => lockedFields' = {}]_vars

(***************************************************************************)
(* Claims about the completion time of a round (SpecRounds)                *)
(***************************************************************************)
\* C26: a round's completedAt is set if and only if its status is completed.
C26_CompletedAtIffCompleted ==
  \A r \in Rounds : (roundProgress[r].completedAt # 0) <=> Completed(r)

(***************************************************************************)
(* Claims about the end of the proctoring session on the coding page       *)
(* (SpecCoding)                                                            *)
(***************************************************************************)
\* C27: a call of stopSession made while the hook holds a session sends a
\* summary that carries the id of that session (never null, never another
\* id), whether it is called on round completion or by the unmount cleanup.
C27_SummaryCarriesSessionId ==
  [][(StopSessionCalled /\ sessionId # 0)
       => \A q \in endRequests' \ endRequests : q.session_id = sessionId]_vars

\* C28: a call of stopSession made while the hook holds a session sends a
\* summary only if none has been sent for that session before, so that each
\* started session has its summary sent at most once.
C28_SummarySentAtMostOnce ==
  [][(StopSessionCalled /\ sessionId # 0)
       => \A q \in endRequests : q.session_id # sessionId]_vars

(***************************************************************************)
(* Claims about a failed start and about the detectors (SpecProctor)       *)
(***************************************************************************)
\* the step settles a startSession call, made with no session held, whose
\* fetch answered with a response that is not ok or was rejected
StartFailed ==
  /\ Len(pending') < Len(pending)
  /\ lastReturn'.op = "startSession"
  /\ lastReturn'.outcome # "ok"
  /\ sessionId = 0

\* C29: when a start attempt has finished without yielding a session, no
\* sessionId is set and isMonitoring is false.
C29_FailedStartNotMonitoring ==
  [][StartFailed => (sessionId' = 0 /\ ~isMonitoring')]_vars


\* the step is a signal raised by a detector
SignalRaised == signals' # signals

\* C30: every signal a detector raises while the hook holds a session adds
\* exactly one to the count of its type tag, by exactly one accepted call of
\* logViolation.
C30_EverySignalRecorded ==
  [][(SignalRaised /\ sessionId # 0) =>
       LET t == lastSignal'.type
       IN /\ accepted'[t] = accepted[t] + 1
          /\ CountOf(violationCounts', t) = CountOf(violationCounts, t) + 1]_vars

====
